---- MODULE Spec2Model ----
(***************************************************************************)
(* Earthquakes project: the fetch -> store -> ranked query pipeline of     *)
(* eq_package (ingv_client.py, db.py, interface.py) over an SQLite table   *)
(* with a six-column UNIQUE constraint.                                    *)
(*                                                                         *)
(* Values.  Python None, JSON null and SQL NULL are one value, None; a     *)
(* REAL is Some(v) with v the number in tenths (60 is 6.0).  TEXT is a     *)
(* sequence of character codes, compared as SQLite's BINARY collation      *)
(* compares it.  A calendar date is a day number (days since 1970-01-01).  *)
(***************************************************************************)
EXTENDS Integers, Sequences, FiniteSets, TLC

VARIABLES
    today,        \* the local calendar date datetime.now() falls on
    bbox,         \* data/bounding_box.csv: None while the file does not exist
    table,        \* TRUE once earthquakes_db exists in data/earthquakes.db
    store,        \* the committed rows of earthquakes_db, in rowid order
    pc,           \* pc[p]: where invocation p of the program stands
    days,         \* days[p]: the --days argument of the run
    response,     \* response[p]: what requests.get returned to the run
    earthquakes,  \* earthquakes[p]: the list gather_earthquakes returned
    rowcount,     \* rowcount[p]: cursor.rowcount of the run's executemany
    ret,          \* ret[p]: the value create_earthquake_db returned
    query,        \* query[p]: the parameters of the run's query_db call
    results,      \* results[p]: None, or Some(the list query_db returned)
    lock,         \* the invocation holding SQLite's write lock, or 0
    pending,      \* the lock holder's uncommitted image of the table
    cursor,       \* cursor[p]: how many rows of the batch executemany has bound
    uncommitted,  \* uncommitted[p]: history, the rows another connection held
                  \* uncommitted when the SELECT of p ran
    params,       \* params[p]: the bounding box in the run's request
    batch,        \* batch[p]: history, the records the run fetched
    settlements,  \* the rows of data/italian_municipalities.csv
    closest       \* None, or the last call of get_closest_municipalities
                  \* with the list it returned

vars == <<today, bbox, table, store, pc, days, response, earthquakes, rowcount,
          ret, query, results, lock, pending, cursor, uncommitted,
          params, batch, settlements, closest>>

-----------------------------------------------------------------------------
(* Bounds of the model *)

MaxRows == 4

MaxBatch == 2

MaxK == 3

MaxSettlements == 3

-----------------------------------------------------------------------------
(* Values *)

None == <<>>

Some(v) == <<v>>

Min(a, b) == IF a <= b THEN a ELSE b

Range(s) == {s[i] : i \in 1..Len(s)}

\* str.isdigit() on one character code
IsDigit(c) == c >= 48 /\ c <= 57

Pad2(n) == <<48 + ((n \div 10) % 10), 48 + (n % 10)>>

Pad4(n) == <<48 + ((n \div 1000) % 10), 48 + ((n \div 100) % 10)>> \o Pad2(n % 100)

\* int() of a run of decimal digits
RECURSIVE ParseInt(_)
ParseInt(s) ==
    IF s = <<>> THEN 0
    ELSE 10 * ParseInt(SubSeq(s, 1, Len(s) - 1)) + (s[Len(s)] - 48)

\* str() of a natural number
RECURSIVE Digits(_)
Digits(n) == IF n < 10 THEN <<48 + n>> ELSE Digits(n \div 10) \o <<48 + (n % 10)>>

\* str() of a float with one decimal place, given in tenths: 350 is '35.0'
Repr(t) == Digits(t \div 10) \o <<46>> \o <<48 + (t % 10)>>

\* float() of a text, in tenths: digits, or digits '.' digit; None stands for
\* the ValueError
ParseFloat(s) ==
    IF s # <<>> /\ \A i \in 1..Len(s) : IsDigit(s[i])
    THEN Some(10 * ParseInt(s))
    ELSE IF /\ Len(s) >= 3
            /\ s[Len(s) - 1] = 46
            /\ \A i \in (1..Len(s)) \ {Len(s) - 1} : IsDigit(s[i])
         THEN Some(10 * ParseInt(SubSeq(s, 1, Len(s) - 2)) + (s[Len(s)] - 48))
         ELSE None

\* the proleptic Gregorian date of a day number (datetime arithmetic)
CivilFromDays(n) ==
    LET z   == n + 719468
        era == z \div 146097
        doe == z - era * 146097
        yoe == (doe - doe \div 1460 + doe \div 36524 - doe \div 146096) \div 365
        doy == doe - (365 * yoe + yoe \div 4 - yoe \div 100)
        mp  == (5 * doy + 2) \div 153
        d   == doy - (153 * mp + 2) \div 5 + 1
        m   == IF mp < 10 THEN mp + 3 ELSE mp - 9
        y   == yoe + era * 400 + (IF m <= 2 THEN 1 ELSE 0)
    IN  [year |-> y, month |-> m, day |-> d]

\* datetime.strftime('%Y-%m-%d')
StrfDate(dt) == Pad4(dt.year) \o <<45>> \o Pad2(dt.month) \o <<45>> \o Pad2(dt.day)

\* datetime.strftime('%H:%M:%S')
StrfTime(dt) == Pad2(dt.hour) \o <<58>> \o Pad2(dt.minute) \o <<58>> \o Pad2(dt.second)

\* datetime.isoformat() of a date and a second of the day, as the service sends it
IsoFormat(n, secs) ==
    LET c == CivilFromDays(n)
    IN  StrfDate(c) \o <<84>>
        \o Pad2(secs \div 3600) \o <<58>> \o Pad2((secs \div 60) % 60)
        \o <<58>> \o Pad2(secs % 60)

\* datetime.fromisoformat: None stands for the ValueError/TypeError it raises
FromIsoFormat(s) ==
    IF  /\ Len(s) = 19
        /\ \A i \in {1, 2, 3, 4, 6, 7, 9, 10, 12, 13, 15, 16, 18, 19} : IsDigit(s[i])
        /\ s[5] = 45 /\ s[8] = 45 /\ s[14] = 58 /\ s[17] = 58
    THEN Some([year   |-> ParseInt(SubSeq(s, 1, 4)),
               month  |-> ParseInt(SubSeq(s, 6, 7)),
               day    |-> ParseInt(SubSeq(s, 9, 10)),
               hour   |-> ParseInt(SubSeq(s, 12, 13)),
               minute |-> ParseInt(SubSeq(s, 15, 16)),
               second |-> ParseInt(SubSeq(s, 18, 19))])
    ELSE None

\* SQLite's BINARY collation on TEXT: a >= b
TextGe(a, b) ==
    LET n    == Min(Len(a), Len(b))
        diff == {i \in 1..n : a[i] # b[i]}
    IN  IF diff = {} THEN Len(a) >= Len(b)
        ELSE LET i == CHOOSE j \in diff : \A l \in diff : j <= l
             IN  a[i] > b[i]

-----------------------------------------------------------------------------
(* The environment: the clock, the remote service, the command line *)

\* 2026-01-10 as a day number
Todays == {20463}

\* --days values a run is started with: argparse takes any int
DaysArgs == {-1, 0, 30}

\* --magnitude values a run is started with, in tenths
MinMags == {40, 60}

\* --K values a run is started with: argparse takes any int
KArgs == (-1)..MaxK

\* a GeoJSON feature as the service returns it: coordinates are [longitude, latitude]
Feature(n, secs, mag, place) ==
    [properties |-> [time |-> IsoFormat(n, secs), mag |-> mag, place |-> Some(place)],
     geometry   |-> [coordinates |-> <<Some(118), Some(454)>>]]

\* a feature without the 'time' property
NoTimeFeature ==
    [properties |-> [mag |-> Some(30), place |-> Some("Parma")],
     geometry   |-> [coordinates |-> <<Some(103), Some(448)>>]]

\* the features the service may return
Features ==
    { Feature(20463, 45296, Some(60), "Padova"),
      Feature(20433, 45296, Some(45), "Padova"),
      Feature(20463, 45296, None,     "Padova"),
      Feature(20463, 45296, Some(72), "Padova"),
      Feature(20463, 45296, Some(60), "Palermo"),
      NoTimeFeature }

RECURSIVE SeqsUpTo(_, _)
SeqsUpTo(S, n) ==
    IF n = 0 THEN {<<>>}
    ELSE LET shorter == SeqsUpTo(S, n - 1)
         IN  shorter \cup {Append(s, x) : s \in {t \in shorter : Len(t) = n - 1}, x \in S}

\* what requests.get may return: an error status, a body that is not JSON, or
\* a feature collection
Responses ==
    {[status_code |-> 500, json |-> None], [status_code |-> 200, json |-> None]}
    \cup {[status_code |-> 200, json |-> Some([features |-> fs])] :
            fs \in SeqsUpTo(Features, MaxBatch)}

-----------------------------------------------------------------------------
(* ingv_client.gather_earthquakes *)

\* write_bounding_box: the four bounds in tenths of a degree
BoundingBox ==
    [minlatitude |-> 350, maxlatitude |-> 475, minlongitude |-> 50, maxlongitude |-> 200]

\* the keys of the dictionary, in the order it was built
BoundingBoxKeys == <<"minlatitude", "maxlatitude", "minlongitude", "maxlongitude">>

\* csv.writer: one row [key, str(value)] for each item of a dictionary
WriteRows(dict) ==
    [i \in 1..Len(BoundingBoxKeys) |-> <<BoundingBoxKeys[i], Repr(dict[BoundingBoxKeys[i]])>>]

\* a writer that puts the items of a box of the Alps only into the file
write_other_box ==
    WriteRows([minlatitude |-> 455, maxlatitude |-> 475,
               minlongitude |-> 50, maxlongitude |-> 200])

\* write_bounding_box(): the rows of data/bounding_box.csv after the call
write_bounding_box == WriteRows(BoundingBox)

\* a bounding_box.csv somebody has edited to cover Sicily only
EditedBoundingBox ==
    <<<<"minlatitude", <<51, 54, 46, 48>>>>, <<"maxlatitude", <<51, 57, 46, 48>>>>,
      <<"minlongitude", <<49, 50, 46, 48>>>>, <<"maxlongitude", <<49, 54, 46, 48>>>>>>

\* the files the first call of gather_earthquakes may find: none, or an
\* edited one (a file write_bounding_box wrote is what a call that found none
\* leaves behind)
BoundingBoxFiles == {None, Some(EditedBoundingBox)}

\* test_bounding_box: the cities of the test, in ten-thousandths of a degree
test_cities ==
    [Padova  |-> [lat |-> 454064, lon |-> 118768],
     Parma   |-> [lat |-> 448015, lon |-> 103279],
     Palermo |-> [lat |-> 381157, lon |-> 133615]]

\* test_bounding_box: the four assertions on one city, the bounds in tenths
InsideBoundingBox(city, bounding_box) ==
    /\ city.lat >= 1000 * bounding_box["minlatitude"]
    /\ city.lat <= 1000 * bounding_box["maxlatitude"]
    /\ city.lon >= 1000 * bounding_box["minlongitude"]
    /\ city.lon <= 1000 * bounding_box["maxlongitude"]

\* the loop over csv.reader: bounding_box[row[0]] = float(row[1])
ReadBoundingBox(rows) ==
    [key \in {rows[i][1] : i \in 1..Len(rows)} |->
        LET last == CHOOSE i \in 1..Len(rows) :
                        /\ rows[i][1] = key
                        /\ \A j \in (i + 1)..Len(rows) : rows[j][1] # key
        IN  ParseFloat(rows[last][2])[1]]

\* the bounding-box entries of params, from the dictionary read
Params(bounding_box) ==
    [minlatitude  |-> bounding_box["minlatitude"],
     maxlatitude  |-> bounding_box["maxlatitude"],
     minlongitude |-> bounding_box["minlongitude"],
     maxlongitude |-> bounding_box["maxlongitude"]]

\* the body of the loop over the features: the tuple of one event, or None for
\* the KeyError/IndexError/ValueError the body raises
EventTuple(event) ==
    IF  /\ "properties" \in DOMAIN event
        /\ "geometry" \in DOMAIN event
        /\ {"time", "mag", "place"} \subseteq DOMAIN event.properties
        /\ "coordinates" \in DOMAIN event.geometry
        /\ Len(event.geometry.coordinates) >= 2
        /\ FromIsoFormat(event.properties.time) # None
    THEN LET timestamp == FromIsoFormat(event.properties.time)[1]
         IN  Some([day       |-> Some(StrfDate(timestamp)),
                   time      |-> Some(StrfTime(timestamp)),
                   mag       |-> event.properties.mag,
                   latitude  |-> event.geometry.coordinates[2],
                   longitude |-> event.geometry.coordinates[1],
                   place     |-> event.properties.place])
    ELSE None

\* gather_earthquakes with a loop that drops the events it cannot read
GatherSkippingUnreadable(r) ==
    IF r.status_code >= 400 THEN None
    ELSE IF r.json = None THEN None
    ELSE LET events == r.json[1].features
             RECURSIVE Kept(_)
             Kept(n) == IF n = 0 THEN <<>>
                        ELSE Kept(n - 1) \o EventTuple(events[n])
         IN  Some(Kept(Len(events)))

\* Some(the list of tuples), or None when the call raises
GatherEarthquakes(r) ==
    IF r.status_code >= 400 THEN None
    ELSE IF r.json = None THEN None
    ELSE LET events == r.json[1].features
         IN  IF \E i \in 1..Len(events) : EventTuple(events[i]) = None
             THEN None
             ELSE Some([i \in 1..Len(events) |-> EventTuple(events[i])[1]])

-----------------------------------------------------------------------------
(* SQLite: the table earthquakes_db *)

Columns == {"day", "time", "mag", "latitude", "longitude", "place"}

\* UNIQUE(day, time, mag, latitude, longitude, place): two rows conflict when
\* every column is equal, and SQL NULL is equal to nothing, NULL included
Conflicts(a, b) == \A c \in Columns : a[c] # None /\ b[c] # None /\ a[c] = b[c]

\* an INSERT whose transaction is never committed
InsertUncommitted(tbl, row) == tbl

\* a plain INSERT into a table without the constraint
InsertAlways(tbl, row) == Append(tbl, row)

\* INSERT OR IGNORE of one row
InsertOrIgnore(tbl, row) ==
    IF \E i \in 1..Len(tbl) : Conflicts(tbl[i], row) THEN tbl ELSE Append(tbl, row)

\* a refresh that empties the table before it stores the batch
ReplaceTable(tbl, rows) == rows

\* cursor.executemany(insert_sql, rows): the table after the statements
RECURSIVE ExecuteMany(_, _)
ExecuteMany(tbl, rows) ==
    IF rows = <<>> THEN tbl
    ELSE ExecuteMany(InsertOrIgnore(tbl, Head(rows)), Tail(rows))

\* cursor.rowcount after executemany: the rows the statements changed
RECURSIVE RowCount(_, _)
RowCount(tbl, rows) ==
    IF rows = <<>> THEN 0
    ELSE (IF \E i \in 1..Len(tbl) : Conflicts(tbl[i], Head(rows)) THEN 0 ELSE 1)
         + RowCount(InsertOrIgnore(tbl, Head(rows)), Tail(rows))

\* a comparison that lets a NULL magnitude through
RealGeOrNull(a, b) == a = None \/ b = None \/ a[1] >= b[1]

\* WHERE mag >= ?: a comparison with NULL is not true
RealGe(a, b) == a # None /\ b # None /\ a[1] >= b[1]

\* WHERE day > ?
DayGt(a, b) == a # None /\ b # None /\ a # b /\ TextGe(a[1], b[1])

\* WHERE day >= ?
DayGe(a, b) == a # None /\ b # None /\ TextGe(a[1], b[1])

\* (datetime.now() - timedelta(days=days)).strftime("%Y-%m-%d")
MinDate(now, d) == StrfDate(CivilFromDays(now - d))

\* the rowids the WHERE clause of query_db selects
Selected(tbl, min_magnitude, min_date) ==
    {i \in 1..Len(tbl) : /\ RealGe(tbl[i].mag, Some(min_magnitude))
                         /\ DayGe(tbl[i].day, Some(min_date))}

\* the row that may come first under ORDER BY mag ASC
FirstAscending(tbl, S) == {i \in S : \A j \in S : RealGe(tbl[j].mag, tbl[i].mag)}

\* the row that may come first under ORDER BY mag DESC
First(tbl, S) == {i \in S : \A j \in S : RealGe(tbl[i].mag, tbl[j].mag)}

\* ORDER BY mag DESC: every order of the rowids S with magnitudes descending;
\* SQLite leaves the order of rows with equal keys open
RECURSIVE OrderBy(_, _)
OrderBy(tbl, S) ==
    IF S = {} THEN {<<>>}
    ELSE UNION {{<<i>> \o rest : rest \in OrderBy(tbl, S \ {i})} : i \in First(tbl, S)}

\* LIMIT ?: a negative limit is no limit
Limit(s, k) == IF k < 0 THEN s ELSE SubSeq(s, 1, Min(k, Len(s)))

\* the lists query_db(k, days, min_magnitude) may return from the table tbl
QueryResults(tbl, now, k, d, min_magnitude) ==
    {[n \in 1..Len(o) |-> tbl[o[n]]] :
        o \in {Limit(s, k) : s \in OrderBy(tbl, Selected(tbl, min_magnitude, MinDate(now, d)))}}

-----------------------------------------------------------------------------
(* The program: invocations of interface.main *)

Procs == {1, 2}

\* the locals of an invocation that has not called anything yet
Init ==
    /\ today \in Todays
    /\ bbox \in {None, Some(write_bounding_box)}
    /\ table = FALSE
    /\ store = <<>>
    /\ pc = [p \in Procs |-> "main"]
    /\ days = [p \in Procs |-> 0]
    /\ response = [p \in Procs |-> None]
    /\ earthquakes = [p \in Procs |-> None]
    /\ rowcount = [p \in Procs |-> 0]
    /\ ret = [p \in Procs |-> None]
    /\ query = [p \in Procs |-> None]
    /\ results = [p \in Procs |-> None]
    /\ lock = 0
    /\ pending = <<>>
    /\ cursor = [p \in Procs |-> 0]
    /\ uncommitted = [p \in Procs |-> 0]
    /\ params = [p \in Procs |-> None]
    /\ batch = [p \in Procs |-> <<>>]
    /\ settlements = <<>>
    /\ closest = None

\* a step 1 that writes the file on every call
AlwaysWriteBoundingBox(file) == Some(write_bounding_box)

\* gather_earthquakes, step 1: the bounding-box file is written when it is missing
EnsureBoundingBox(file) == IF file = None THEN Some(write_bounding_box) ELSE file

\* every response with what gather_earthquakes makes of it
Fetches == {<<r, GatherEarthquakes(r)>> : r \in Responses}

\* db.create_earthquake_db(days) up to its second commit, with no other writer
\* running: fetch, CREATE TABLE IF NOT EXISTS, executemany, commit.  A failed
\* fetch raises before the database is opened.
CreateEarthquakeDb(p) ==
    /\ pc[p] = "main"
    /\ lock = 0
    /\ \E d \in DaysArgs, f \in Fetches :
         LET fetched == f[2]
             after   == IF fetched = None THEN store ELSE ExecuteMany(store, fetched[1])
         IN  /\ Len(after) <= MaxRows
             /\ days' = [days EXCEPT ![p] = d]
             /\ response' = [response EXCEPT ![p] = Some(f[1])]
             /\ bbox' = EnsureBoundingBox(bbox)
             /\ params' = [params EXCEPT ![p] =
                               Some(Params(ReadBoundingBox(EnsureBoundingBox(bbox)[1])))]
             /\ earthquakes' = [earthquakes EXCEPT ![p] = fetched]
             /\ IF fetched = None
                THEN /\ pc' = [pc EXCEPT ![p] = "failed"]
                     /\ UNCHANGED <<table, store, rowcount>>
                ELSE /\ table' = TRUE
                     /\ store' = after
                     /\ rowcount' = [rowcount EXCEPT ![p] = RowCount(store, fetched[1])]
                     /\ pc' = [pc EXCEPT ![p] = "committed"]
    /\ UNCHANGED <<batch, settlements, closest, today, ret, query, results, lock, pending, cursor,
                   uncommitted>>

\* create_earthquake_db closes its cursor and connection and returns: the
\* function has no return statement, so the caller gets None, and its locals
\* are gone
Close(p) ==
    /\ pc[p] = "committed"
    /\ pc' = [pc EXCEPT ![p] = "created"]
    /\ ret' = [ret EXCEPT ![p] = None]
    /\ response' = [response EXCEPT ![p] = None]
    /\ earthquakes' = [earthquakes EXCEPT ![p] = None]
    /\ rowcount' = [rowcount EXCEPT ![p] = 0]
    /\ cursor' = [cursor EXCEPT ![p] = 0]
    /\ params' = [params EXCEPT ![p] = None]
    /\ UNCHANGED <<batch, settlements, closest, today, bbox, table, store, days, query, results, lock, pending,
                   uncommitted>>

\* db.query_db(k, days, min_magnitude), called by main after create_earthquake_db
QueryDb(p) ==
    /\ pc[p] = "created"
    /\ table
    /\ \E k \in KArgs, m \in MinMags :
         /\ query' = [query EXCEPT ![p] = Some([k |-> k, min_magnitude |-> m])]
         /\ \E rows \in QueryResults(store, today, k, days[p], m) :
              results' = [results EXCEPT ![p] = Some(rows)]
    /\ uncommitted' = [uncommitted EXCEPT ![p] =
                          IF lock \in {0, p} THEN 0 ELSE Len(pending) - Len(store)]
    /\ pc' = [pc EXCEPT ![p] = "done"]
    /\ UNCHANGED <<params, batch, settlements, closest, today, bbox, table, store, days, response, earthquakes,
                   rowcount, ret, lock, pending, cursor>>

\* the process ends (printed its rows, or died of the exception); the next
\* invocation starts with fresh locals
Exit(p) ==
    /\ pc[p] \in {"done", "failed"}
    /\ pc' = [pc EXCEPT ![p] = "main"]
    /\ days' = [days EXCEPT ![p] = 0]
    /\ response' = [response EXCEPT ![p] = None]
    /\ earthquakes' = [earthquakes EXCEPT ![p] = None]
    /\ rowcount' = [rowcount EXCEPT ![p] = 0]
    /\ query' = [query EXCEPT ![p] = None]
    /\ results' = [results EXCEPT ![p] = None]
    /\ cursor' = [cursor EXCEPT ![p] = 0]
    /\ uncommitted' = [uncommitted EXCEPT ![p] = 0]
    /\ params' = [params EXCEPT ![p] = None]
    /\ UNCHANGED <<batch, settlements, closest, today, bbox, table, store, ret, lock, pending>>

\* one invocation at a time
Next ==
    \/ CreateEarthquakeDb(1)
    \/ Close(1)
    \/ QueryDb(1)
    \/ Exit(1)

Spec == Init /\ [][Next]_vars

-----------------------------------------------------------------------------
(* Two invocations started at the same time on a new database:            *)
(* create_earthquake_db statement by statement.  Python's sqlite3 opens a transaction before the first       *)
(* INSERT of executemany; SQLite gives the write lock to one connection,   *)
(* keeps its changes out of the database file until COMMIT, and lets       *)
(* readers read the committed file meanwhile.                              *)

\* the features the service returns to the concurrent invocations
ConcFeatures == {f \in Features : /\ "time" \in DOMAIN f.properties
                                  /\ f.properties.place = Some("Padova")
                                  /\ f.properties.mag \in {None, Some(60), Some(72)}}

ConcFetches ==
    {f \in Fetches : \/ f[1].status_code = 500
                     \/ /\ f[1].json # None
                        /\ Range(f[1].json[1].features) \subseteq ConcFeatures}

\* --days of the concurrent invocations
ConcDays == {30}

\* create_earthquake_db, line 1: gather_earthquakes(days)
Fetch(p) ==
    /\ pc[p] = "main"
    /\ \E d \in ConcDays, f \in ConcFetches :
         /\ days' = [days EXCEPT ![p] = d]
         /\ response' = [response EXCEPT ![p] = Some(f[1])]
         /\ earthquakes' = [earthquakes EXCEPT ![p] = f[2]]
         /\ pc' = [pc EXCEPT ![p] = IF f[2] = None THEN "failed" ELSE "fetched"]
    /\ bbox' = EnsureBoundingBox(bbox)
    /\ params' = [params EXCEPT ![p] =
                      Some(Params(ReadBoundingBox(EnsureBoundingBox(bbox)[1])))]
    /\ UNCHANGED <<batch, settlements, closest, today, table, store, rowcount, ret, query, results, lock,
                   pending, cursor,
                   uncommitted>>

\* sqlite3.connect, CREATE TABLE IF NOT EXISTS, commit
CreateTable(p) ==
    /\ pc[p] = "fetched"
    /\ table' = TRUE
    /\ pc' = [pc EXCEPT ![p] = "table"]
    /\ UNCHANGED <<params, batch, settlements, closest, today, bbox, store, days, response, earthquakes, rowcount,
                   ret, query, results, lock, pending, cursor,
                   uncommitted>>

\* the database file readers see after a statement of an open transaction:
\* with immediate writes it would be the writer's image
AfterStatementDirty(file, image) == image

\* the database file readers see after a statement of an open transaction:
\* the committed file, the change stays with the writer until COMMIT
AfterStatement(file, image) == file

\* executemany binds the next record and runs INSERT OR IGNORE; the first
\* statement takes the write lock and starts from the committed table
Insert(p) ==
    /\ pc[p] \in {"table", "insert"}
    /\ cursor[p] < Len(earthquakes[p][1])
    /\ lock \in {0, p}
    /\ LET image == IF lock = p THEN pending ELSE store
           row   == earthquakes[p][1][cursor[p] + 1]
       IN  /\ Len(InsertOrIgnore(image, row)) <= MaxRows
           /\ pending' = InsertOrIgnore(image, row)
           /\ rowcount' = [rowcount EXCEPT ![p] = @ + RowCount(image, <<row>>)]
           /\ store' = AfterStatement(store, InsertOrIgnore(image, row))
    /\ lock' = p
    /\ cursor' = [cursor EXCEPT ![p] = @ + 1]
    /\ pc' = [pc EXCEPT ![p] = "insert"]
    /\ UNCHANGED <<params, batch, settlements, closest, today, bbox, table, days, response, earthquakes, ret, query,
                   results,
                   uncommitted>>

\* the write lock stays with another connection past the busy timeout:
\* executemany raises sqlite3.OperationalError and the run dies
Busy(p) ==
    /\ pc[p] = "table"
    /\ cursor[p] < Len(earthquakes[p][1])
    /\ lock \notin {0, p}
    /\ pc' = [pc EXCEPT ![p] = "failed"]
    /\ UNCHANGED <<params, batch, settlements, closest, today, bbox, table, store, days, response, earthquakes,
                   rowcount, ret, query, results, lock, pending, cursor,
                   uncommitted>>

\* conn.commit() after executemany: the image becomes the committed table
Commit(p) ==
    /\ pc[p] \in {"table", "insert"}
    /\ cursor[p] = Len(earthquakes[p][1])
    /\ IF lock = p
       THEN store' = pending /\ lock' = 0 /\ pending' = <<>>
       ELSE UNCHANGED <<store, lock, pending>>
    /\ pc' = [pc EXCEPT ![p] = "committed"]
    /\ UNCHANGED <<params, batch, settlements, closest, today, bbox, table, days, response, earthquakes, rowcount,
                   ret, query, results, cursor,
                   uncommitted>>

NextConc ==
    \E p \in Procs :
        \/ Fetch(p)
        \/ CreateTable(p)
        \/ Insert(p)
        \/ Busy(p)
        \/ Commit(p)
        \/ Close(p)
        \/ QueryDb(p)

SpecConc == Init /\ [][NextConc]_vars

-----------------------------------------------------------------------------
(* One run of interface.main from its first call to the return of          *)
(* query_db, as a single step: nothing else runs in between.  The clock is *)
(* read again by query_db and may by then have passed midnight.  response  *)
(* stays as the record of what the service answered to the run.            *)

\* the tables an earlier run may have left: its batch had at most one event
RunStores ==
    {ExecuteMany(<<>>, f[2][1]) : f \in {g \in Fetches : g[2] # None /\ Len(g[2][1]) <= 1}}

\* datetime.now() in query_db, after the one in gather_earthquakes
Clock(now) == {now, now + 1}

\* a database some earlier run has created, and a process that has called nothing
InitRun ==
    /\ today \in Todays
    /\ bbox \in {None, Some(write_bounding_box)}
    /\ table = TRUE
    /\ store \in RunStores
    /\ pc = [p \in Procs |-> "main"]
    /\ days = [p \in Procs |-> 0]
    /\ response = [p \in Procs |-> None]
    /\ earthquakes = [p \in Procs |-> None]
    /\ rowcount = [p \in Procs |-> 0]
    /\ ret = [p \in Procs |-> None]
    /\ query = [p \in Procs |-> None]
    /\ results = [p \in Procs |-> None]
    /\ lock = 0
    /\ pending = <<>>
    /\ cursor = [p \in Procs |-> 0]
    /\ uncommitted = [p \in Procs |-> 0]
    /\ params = [p \in Procs |-> None]
    /\ batch = [p \in Procs |-> <<>>]
    /\ settlements = <<>>
    /\ closest = None

\* main: create_earthquake_db(args.days), then query_db(args.K, args.days,
\* args.magnitude); the locals of the two functions are gone when it is over
Run(p) ==
    /\ pc[p] = "main"
    /\ \A other \in Procs \ {p} : pc[other] = "main"
    /\ lock = 0
    /\ \E d \in DaysArgs, f \in Fetches, k \in KArgs, m \in MinMags, now \in Clock(today) :
         LET fetched == f[2]
             after   == IF fetched = None THEN store ELSE ExecuteMany(store, fetched[1])
         IN  /\ days' = [days EXCEPT ![p] = d]
             /\ response' = [response EXCEPT ![p] = Some(f[1])]
             /\ bbox' = EnsureBoundingBox(bbox)
             /\ IF fetched = None
                THEN /\ pc' = [pc EXCEPT ![p] = "failed"]
                     /\ UNCHANGED <<today, table, store, batch, query, results>>
                ELSE /\ table' = TRUE
                     /\ store' = after
                     /\ batch' = [batch EXCEPT ![p] = fetched[1]]
                     /\ today' = now
                     /\ query' = [query EXCEPT ![p] = Some([k |-> k, min_magnitude |-> m])]
                     /\ \E rows \in QueryResults(after, now, k, d, m) :
                          results' = [results EXCEPT ![p] = Some(rows)]
                     /\ pc' = [pc EXCEPT ![p] = "done"]
    /\ UNCHANGED <<settlements, closest, earthquakes, rowcount, ret, lock,
                   pending, cursor, uncommitted, params>>

NextRun == Run(1)

SpecRun == InitRun /\ [][NextRun]_vars

-----------------------------------------------------------------------------
(* The other entry point, src/main.py, which imports the functions of      *)
(* eq_package/earthquakes.py and works on the same files in data/.  The    *)
(* loop over the events and the SQL statements of earthquakes.py are the   *)
(* same text as those of ingv_client.py and db.py, and are modelled by the *)
(* same operators.                                                         *)

\* a gather_earthquakes that stores 0 for a missing magnitude
GatherNullAsZero(file, r) ==
    IF file = None \/ GatherEarthquakes(r) = None THEN None
    ELSE Some([i \in 1..Len(GatherEarthquakes(r)[1]) |->
                 [GatherEarthquakes(r)[1][i] EXCEPT
                     !.mag = IF @ = None THEN Some(0) ELSE @]])

\* earthquakes.gather_earthquakes: it opens data/bounding_box.csv without
\* creating it; None stands for the exception the call raises
earthquakes_gather(file, r) ==
    IF file = None THEN None
    ELSE IF r.status_code >= 400 THEN None
    ELSE IF r.json = None THEN None
    ELSE LET events == r.json[1].features
         IN  IF \E i \in 1..Len(events) : EventTuple(events[i]) = None
             THEN None
             ELSE Some([i \in 1..Len(events) |-> EventTuple(events[i])[1]])

\* main of src/main.py: earthquakes.create_earthquake_db(args.days), then
\* earthquakes.query_db(args.K, args.days, args.magnitude)
MainPy(p) ==
    /\ pc[p] = "main"
    /\ \A other \in Procs \ {p} : pc[other] = "main"
    /\ lock = 0
    /\ \E d \in DaysArgs, r \in Responses :
         LET fetched == earthquakes_gather(bbox, r)
         IN  /\ days' = [days EXCEPT ![p] = d]
             /\ response' = [response EXCEPT ![p] = IF bbox = None THEN None ELSE Some(r)]
             /\ IF fetched = None
                THEN /\ pc' = [pc EXCEPT ![p] = "failed"]
                     /\ UNCHANGED <<today, table, store, batch, query, results>>
                ELSE /\ table' = TRUE
                     /\ store' = ExecuteMany(store, fetched[1])
                     /\ batch' = [batch EXCEPT ![p] = fetched[1]]
                     /\ \E k \in KArgs, m \in MinMags, now \in Clock(today) :
                          /\ today' = now
                          /\ query' = [query EXCEPT ![p] =
                                          Some([k |-> k, min_magnitude |-> m])]
                          /\ \E rows \in QueryResults(store', now, k, d, m) :
                               results' = [results EXCEPT ![p] = Some(rows)]
                     /\ pc' = [pc EXCEPT ![p] = "done"]
    /\ UNCHANGED <<settlements, closest, bbox, earthquakes, rowcount, ret, lock,
                   pending, cursor, uncommitted, params>>

\* one run of either entry point on the database an earlier run left:
\* invocation 1 is interface.main, invocation 2 is src/main.py
NextMain == Run(1) \/ MainPy(2)

SpecMain == InitRun /\ [][NextMain]_vars

-----------------------------------------------------------------------------
(* gather_earthquakes alone, over every shape of event *)

\* a feature without the 'mag' property
NoMagFeature ==
    [properties |-> [time |-> IsoFormat(20463, 45296), place |-> Some("Parma")],
     geometry   |-> [coordinates |-> <<Some(103), Some(448)>>]]

\* a feature without the 'place' property
NoPlaceFeature ==
    [properties |-> [time |-> IsoFormat(20463, 45296), mag |-> Some(30)],
     geometry   |-> [coordinates |-> <<Some(103), Some(448)>>]]

\* a feature whose time is not ISO 8601: 'n/a'
BadTimeFeature ==
    [properties |-> [time |-> <<110, 47, 97>>, mag |-> Some(30), place |-> Some("Parma")],
     geometry   |-> [coordinates |-> <<Some(103), Some(448)>>]]

\* a feature with a single coordinate
NoPairFeature ==
    [properties |-> [time |-> IsoFormat(20463, 45296), mag |-> Some(30),
                     place |-> Some("Parma")],
     geometry   |-> [coordinates |-> <<Some(103)>>]]

GatherFeatures ==
    Features \cup {NoMagFeature, NoPlaceFeature, BadTimeFeature, NoPairFeature}

GatherResponses ==
    {[status_code |-> 500, json |-> None], [status_code |-> 200, json |-> None]}
    \cup {[status_code |-> 200, json |-> Some([features |-> fs])] :
            fs \in SeqsUpTo(GatherFeatures, MaxBatch)}

\* a call of gather_earthquakes(days)
Gather(p) ==
    /\ pc[p] = "main"
    /\ \E d \in DaysArgs, r \in GatherResponses :
         /\ days' = [days EXCEPT ![p] = d]
         /\ response' = [response EXCEPT ![p] = Some(r)]
         /\ earthquakes' = [earthquakes EXCEPT ![p] = GatherEarthquakes(r)]
         /\ pc' = [pc EXCEPT ![p] = IF GatherEarthquakes(r) = None THEN "failed" ELSE "fetched"]
    /\ bbox' = EnsureBoundingBox(bbox)
    /\ params' = [params EXCEPT ![p] =
                      Some(Params(ReadBoundingBox(EnsureBoundingBox(bbox)[1])))]
    /\ UNCHANGED <<batch, settlements, closest, today, table, store, rowcount, ret, query,
                   results, lock, pending, cursor, uncommitted>>

\* gather_earthquakes has returned or raised, and its caller is done with
\* the list
Return(p) ==
    /\ pc[p] \in {"fetched", "failed"}
    /\ pc' = [pc EXCEPT ![p] = "main"]
    /\ days' = [days EXCEPT ![p] = 0]
    /\ response' = [response EXCEPT ![p] = None]
    /\ earthquakes' = [earthquakes EXCEPT ![p] = None]
    /\ params' = [params EXCEPT ![p] = None]
    /\ UNCHANGED <<batch, settlements, closest, today, bbox, table, store, rowcount, ret,
                   query, results, lock, pending, cursor, uncommitted>>

\* no database yet, and the data directory with any bounding-box file
InitGather ==
    /\ today \in Todays
    /\ bbox \in BoundingBoxFiles
    /\ table = FALSE
    /\ store = <<>>
    /\ pc = [p \in Procs |-> "main"]
    /\ days = [p \in Procs |-> 0]
    /\ response = [p \in Procs |-> None]
    /\ earthquakes = [p \in Procs |-> None]
    /\ rowcount = [p \in Procs |-> 0]
    /\ ret = [p \in Procs |-> None]
    /\ query = [p \in Procs |-> None]
    /\ results = [p \in Procs |-> None]
    /\ lock = 0
    /\ pending = <<>>
    /\ cursor = [p \in Procs |-> 0]
    /\ uncommitted = [p \in Procs |-> 0]
    /\ params = [p \in Procs |-> None]
    /\ batch = [p \in Procs |-> <<>>]
    /\ settlements = <<>>
    /\ closest = None

NextGather == Gather(1) \/ Return(1)

SpecGather == InitGather /\ [][NextGather]_vars

-----------------------------------------------------------------------------
(* municipalities.py: the settlements closest to an epicenter *)

\* the rows a dataset may hold: name, latitude, longitude (tenths of a degree)
Settlements ==
    { [name |-> "Padova",      latitude |-> 454, longitude |-> 119],
      [name |-> "Palermo",     latitude |-> 381, longitude |-> 134],
      [name |-> "Limena",      latitude |-> 455, longitude |-> 118],
      [name |-> "Albignasego", latitude |-> 453, longitude |-> 118] }

\* the epicenters the function is called with: (latitude, longitude)
Epicenters == {<<454, 118>>, <<381, 134>>}

\* the n the function is called with
NArgs == (-1)..(MaxSettlements + 1)

\* calculate_distance on the coordinates above: the haversine distance with
\* R = 6371.0, in metres.  Two of the values are equal as floats as well:
\* (45.5, 11.8) and (45.3, 11.8) are equally far from (45.4, 11.8).
calculate_distance(lat1, lon1, lat2, lon2) ==
    CASE <<lat1, lon1, lat2, lon2>> = <<454, 118, 454, 119>> -> 7808
      [] <<lat1, lon1, lat2, lon2>> = <<454, 118, 381, 134>> -> 822454
      [] <<lat1, lon1, lat2, lon2>> = <<454, 118, 455, 118>> -> 11119
      [] <<lat1, lon1, lat2, lon2>> = <<454, 118, 453, 118>> -> 11119
      [] <<lat1, lon1, lat2, lon2>> = <<381, 134, 454, 119>> -> 821162
      [] <<lat1, lon1, lat2, lon2>> = <<381, 134, 381, 134>> -> 0
      [] <<lat1, lon1, lat2, lon2>> = <<381, 134, 455, 118>> -> 833413
      [] <<lat1, lon1, lat2, lon2>> = <<381, 134, 453, 118>> -> 811500

\* a sort step that puts an entry before the entries of equal distance
InsertBeforeEqual(sorted, x) ==
    LET k == Cardinality({i \in 1..Len(sorted) : sorted[i][2] < x[2]})
    IN  SubSeq(sorted, 1, k) \o <<x>> \o SubSeq(sorted, k + 1, Len(sorted))

\* list.sort is stable: an entry goes after the entries that are not farther
InsertStable(sorted, x) ==
    LET k == Cardinality({i \in 1..Len(sorted) : sorted[i][2] <= x[2]})
    IN  SubSeq(sorted, 1, k) \o <<x>> \o SubSeq(sorted, k + 1, Len(sorted))

\* municipalities.sort(key=lambda x: x[1])
RECURSIVE SortByDistance(_)
SortByDistance(list) ==
    IF list = <<>> THEN <<>>
    ELSE InsertStable(SortByDistance(SubSeq(list, 1, Len(list) - 1)), list[Len(list)])

\* list[:n]: a negative n counts from the end
Slice(list, n) ==
    IF n >= 0 THEN SubSeq(list, 1, Min(n, Len(list)))
    ELSE SubSeq(list, 1, IF Len(list) + n > 0 THEN Len(list) + n ELSE 0)

\* get_closest_municipalities(eq_lat, eq_lon, n) over the rows of the dataset
get_closest_municipalities(rows, eq_lat, eq_lon, n) ==
    LET municipalities ==
            [i \in 1..Len(rows) |->
                <<rows[i].name,
                  calculate_distance(eq_lat, eq_lon, rows[i].latitude, rows[i].longitude)>>]
    IN  Slice(SortByDistance(municipalities), n)

\* the program's variables, which the lookup leaves alone
program == <<today, bbox, table, store, pc, days, response, earthquakes, rowcount,
             ret, query, results, lock, pending, cursor, uncommitted, params,
             batch>>

\* any dataset file, and nothing else going on
InitClosest ==
    /\ settlements \in SeqsUpTo(Settlements, MaxSettlements)
    /\ closest = None
    /\ today \in Todays
    /\ bbox = Some(write_bounding_box)
    /\ table = FALSE
    /\ store = <<>>
    /\ pc = [p \in Procs |-> "main"]
    /\ days = [p \in Procs |-> 0]
    /\ response = [p \in Procs |-> None]
    /\ earthquakes = [p \in Procs |-> None]
    /\ rowcount = [p \in Procs |-> 0]
    /\ ret = [p \in Procs |-> None]
    /\ query = [p \in Procs |-> None]
    /\ results = [p \in Procs |-> None]
    /\ lock = 0
    /\ pending = <<>>
    /\ cursor = [p \in Procs |-> 0]
    /\ uncommitted = [p \in Procs |-> 0]
    /\ params = [p \in Procs |-> None]
    /\ batch = [p \in Procs |-> <<>>]

\* a call of get_closest_municipalities
GetClosestMunicipalities ==
    /\ \E e \in Epicenters, n \in NArgs :
         closest' = Some([eq_lat |-> e[1], eq_lon |-> e[2], n |-> n,
                          returned |-> get_closest_municipalities(settlements, e[1], e[2], n)])
    /\ UNCHANGED <<settlements, program>>

NextClosest == GetClosestMunicipalities

SpecClosest == InitClosest /\ [][NextClosest]_vars

-----------------------------------------------------------------------------
(* What the claims speak of, stated without the operators above *)

\* the calendar date a stored 'YYYY-MM-DD' text denotes
DateOf(text) ==
    [year  |-> ParseInt(SubSeq(text, 1, 4)),
     month |-> ParseInt(SubSeq(text, 6, 7)),
     day   |-> ParseInt(SubSeq(text, 9, 10))]

\* date a is not after date b
DateLe(a, b) ==
    \/ a.year < b.year
    \/ a.year = b.year /\ a.month < b.month
    \/ a.year = b.year /\ a.month = b.month /\ a.day <= b.day

\* the row is dated today - d or later
InWindow(row, now, d) ==
    row.day # None /\ DateLe(CivilFromDays(now - d), DateOf(row.day[1]))

\* the row has a magnitude, and it is at least m
AtLeast(row, m) == row.mag # None /\ row.mag[1] >= m

\* the stored rows a query with these parameters may return
Eligible(tbl, now, d, m) ==
    {i \in 1..Len(tbl) : AtLeast(tbl[i], m) /\ InWindow(tbl[i], now, d)}

\* how many rows of tbl equal row in all six fields, None equal to None
Count(tbl, row) == Cardinality({i \in 1..Len(tbl) : tbl[i] = row})

\* the positions of the batch whose record equals no row of tbl and no earlier
\* record of the batch
Fresh(tbl, rows) ==
    {j \in 1..Len(rows) : /\ \A i \in 1..Len(tbl) : tbl[i] # rows[j]
                          /\ \A i \in 1..(j - 1) : rows[i] # rows[j]}

\* the records at the positions S of the batch, in batch order
RECURSIVE Pick(_, _)
Pick(rows, S) ==
    IF rows = <<>> THEN <<>>
    ELSE Pick(SubSeq(rows, 1, Len(rows) - 1), S)
         \o (IF Len(rows) \in S THEN <<rows[Len(rows)]>> ELSE <<>>)

\* tbl is an initial part of longer
IsPrefix(tbl, longer) ==
    Len(tbl) <= Len(longer) /\ SubSeq(longer, 1, Len(tbl)) = tbl

\* p has just run create_earthquake_db up to its commit
Committing(p) == pc[p] = "main" /\ pc'[p] = "committed"

-----------------------------------------------------------------------------
(* C1: after any sequence of create_earthquake_db calls the table never    *)
(* holds two rows equal in all six fields, rows with a null magnitude      *)
(* included.                                                               *)
C1_NoTwoEqualRows ==
    \A i, j \in 1..Len(store) : i # j => store[i] # store[j]

(* C2: the upsert is idempotent: executing the batch of a call a second    *)
(* time leaves the table as the first execution left it, also for batches  *)
(* with null magnitudes and repeated records.                              *)
C2_Idempotent ==
    \A p \in Procs :
        pc[p] = "committed" => ExecuteMany(store, earthquakes[p][1]) = store

(* C3: a call keeps every stored row as it was and appends exactly the     *)
(* records of its batch that match no stored row (and no earlier record of *)
(* the batch) on all six fields.                                           *)
C3_InsertedIffNoMatch ==
    [][\A p \in Procs :
         Committing(p) =>
            /\ IsPrefix(store, store')
            /\ SubSeq(store', Len(store) + 1, Len(store'))
                 = Pick(earthquakes'[p][1], Fresh(store, earthquakes'[p][1]))]_vars

\* the magnitudes of the rows, in order
Mags(rows) == [i \in 1..Len(rows) |-> rows[i].mag]

\* the run p has a query result
Done(p) == pc[p] = "done" /\ results[p] # None /\ query[p] # None

\* the parameters the specification calls valid
ValidQuery(k, d) == k > 0 /\ d >= 0

(* C4: every list query_db returns (k positive, days non-negative) has     *)
(* non-increasing magnitudes, every magnitude at least min_magnitude,      *)
(* every day on or after today - days, and at most k rows.                 *)
C4_QueryResultBounds ==
    \A p \in Procs :
        (Done(p) /\ ValidQuery(query[p][1].k, days[p])) =>
            LET rows == results[p][1]
                q    == query[p][1]
            IN  /\ Len(rows) <= q.k
                /\ \A i \in 1..Len(rows) :
                      /\ AtLeast(rows[i], q.min_magnitude)
                      /\ InWindow(rows[i], today, days[p])
                /\ \A i \in 1..(Len(rows) - 1) :
                      /\ rows[i].mag # None /\ rows[i + 1].mag # None
                      /\ rows[i].mag[1] >= rows[i + 1].mag[1]

\* a result of two rows of different magnitude, from a table that also holds
\* a row without magnitude and a row outside the window
C4_Witness ==
    \E p \in Procs :
        /\ Done(p)
        /\ Len(results[p][1]) = 2
        /\ results[p][1][1].mag # results[p][1][2].mag
        /\ \E i \in 1..Len(store) : store[i].mag = None
        /\ \E i \in 1..Len(store) : ~InWindow(store[i], today, days[p])

(* C5: query_db returns the k strongest eligible rows: as many rows as     *)
(* min(k, number of eligible stored rows), all of them eligible, and no    *)
(* eligible row left out is stronger than a returned one.                  *)
C5_TopKOfEligible ==
    \A p \in Procs :
        (Done(p) /\ ValidQuery(query[p][1].k, days[p])) =>
            LET rows == results[p][1]
                q    == query[p][1]
                E    == Eligible(store, today, days[p], q.min_magnitude)
            IN  /\ Len(rows) = Min(q.k, Cardinality(E))
                /\ Range(rows) \subseteq {store[i] : i \in E}
                /\ \A i \in E :
                      store[i] \notin Range(rows) =>
                         \A n \in 1..Len(rows) : ~(store[i].mag[1] > rows[n].mag[1])

\* a result cut to k rows, with an eligible row dated exactly today - days
C5_Witness ==
    \E p \in Procs :
        /\ Done(p)
        /\ Len(results[p][1]) = query[p][1].k
        /\ Cardinality(Eligible(store, today, days[p], query[p][1].min_magnitude))
             > query[p][1].k
        /\ days[p] > 0
        /\ \E i \in Eligible(store, today, days[p], query[p][1].min_magnitude) :
              DateOf(store[i].day[1]) = CivilFromDays(today - days[p])

(* C6: no row without magnitude is ever returned; and from the stored      *)
(* magnitudes [6.0, 4.5, null, 7.2], all inside the window,                *)
(* query_db(3, 30, 4.0) returns exactly the magnitudes [7.2, 6.0, 4.5].    *)
C6_NullNeverReturned ==
    \A p \in Procs :
        Done(p) =>
            /\ \A i \in 1..Len(results[p][1]) : results[p][1][i].mag # None
            /\ ( /\ Mags(store) = <<Some(60), Some(45), None, Some(72)>>
                 /\ \A i \in 1..Len(store) : InWindow(store[i], today, 30)
                 /\ days[p] = 30
                 /\ query[p][1] = [k |-> 3, min_magnitude |-> 40] )
               => Mags(results[p][1]) = <<Some(72), Some(60), Some(45)>>

\* the scenario of the claim has been run
C6_Witness ==
    \E p \in Procs :
        /\ Done(p)
        /\ Mags(store) = <<Some(60), Some(45), None, Some(72)>>
        /\ days[p] = 30
        /\ query[p][1] = [k |-> 3, min_magnitude |-> 40]
        /\ Mags(results[p][1]) = <<Some(72), Some(60), Some(45)>>

\* a record of the batch without any NULL that equals a stored row or an
\* earlier record of the batch
DuplicateSkipped(tbl, rows) ==
    \E j \in 1..Len(rows) :
        /\ \A c \in Columns : rows[j][c] # None
        /\ \/ \E i \in 1..Len(tbl) : tbl[i] = rows[j]
           \/ \E i \in 1..(j - 1) : rows[i] = rows[j]

\* p returns from create_earthquake_db
Closing(p) == pc[p] = "committed" /\ pc'[p] = "created"

(* C7, as claimed: create_earthquake_db returns the number of rows it      *)
(* newly inserted.                                                         *)
C7_ReturnsInsertedCount ==
    [][\A p \in Procs : Closing(p) => ret'[p] = Some(rowcount[p])]_vars

(* C7, amended: create_earthquake_db returns None; the number of rows it   *)
(* newly inserted (the cursor's rowcount) equals the row count after the   *)
(* call minus the row count before it, and is smaller than the batch       *)
(* length whenever a duplicate was skipped.                                *)
C7_ReturnsNoneCountsInserted ==
    [][\A p \in Procs :
         /\ Committing(p) =>
               /\ rowcount'[p] = Len(store') - Len(store)
               /\ rowcount'[p] <= Len(earthquakes'[p][1])
               /\ DuplicateSkipped(store, earthquakes'[p][1])
                    => rowcount'[p] < Len(earthquakes'[p][1])
         /\ Closing(p) => ret'[p] = None]_vars

\* a call that inserted one record of its batch and skipped another
C7_Witness ==
    \E p \in Procs :
        /\ pc[p] = "committed"
        /\ rowcount[p] > 0
        /\ rowcount[p] < Len(earthquakes[p][1])

\* r returns from query_db
Querying(r) == pc[r] = "created" /\ pc'[r] = "done"

(* C8: a batch is atomic for readers: a query_db that runs while another   *)
(* invocation is inside create_earthquake_db returns what it would return  *)
(* from the table without any row of that call, or from the table with all *)
(* of them, never from a table with some of them.                          *)
C8_ReaderSeesNoneOrAll ==
    [][\A r \in Procs :
         Querying(r) =>
            \A p \in Procs \ {r} :
               lock = p =>
                  LET none == SubSeq(pending, 1, Len(pending) - rowcount[p])
                      all  == ExecuteMany(none, earthquakes[p][1])
                      q    == query'[r][1]
                  IN  results'[r][1] \in
                         QueryResults(none, today, q.k, days[r], q.min_magnitude)
                         \cup QueryResults(all, today, q.k, days[r], q.min_magnitude)]_vars

\* a query ran while a writer had inserted one of the two new rows of its
\* batch, both of magnitude 6.0 or more, and returned no row
C8_Witness ==
    \E r \in Procs :
        /\ pc[r] = "done"
        /\ uncommitted[r] = 1
        /\ results[r] = Some(<<>>)
        /\ \E p \in Procs \ {r} :
              /\ pc[p] = "committed"
              /\ rowcount[p] = 2
              /\ Len(store) = 2
              /\ \A i \in 1..Len(store) : AtLeast(store[i], 60)

(* C9: under every interleaving of concurrent create_earthquake_db calls   *)
(* whose batches share a record, the table holds that record at most once. *)
C9_SharedRecordStoredOnce ==
    \A p, q \in Procs :
        (p # q /\ pc[p] = "committed" /\ pc[q] = "committed") =>
            \A row \in Range(earthquakes[p][1]) \cap Range(earthquakes[q][1]) :
                Count(store, row) <= 1

\* the event has no readable timestamp or no coordinate pair
Malformed(event) ==
    \/ "time" \notin DOMAIN event.properties
    \/ FromIsoFormat(event.properties.time) = None
    \/ "coordinates" \notin DOMAIN event.geometry
    \/ Len(event.geometry.coordinates) < 2

\* a non-success status, a body that does not parse, or a malformed event
FetchFails(r) ==
    \/ r.status_code # 200
    \/ r.json = None
    \/ \E i \in 1..Len(r.json[1].features) : Malformed(r.json[1].features[i])

(* C10: a run whose fetch fails aborts: the table keeps exactly the rows   *)
(* it had, and the run never produces a query result.                      *)
C10_FailedFetchAborts ==
    [][\A p \in Procs :
         /\ (pc[p] = "main" /\ pc'[p] # "main" /\ FetchFails(response'[p][1])) =>
               /\ pc'[p] = "failed"
               /\ store' = store
               /\ table' = table
               /\ results'[p] = None
         /\ pc[p] = "failed" => (pc'[p] \in {"failed", "main"} /\ results'[p] = None)]_vars

\* a run failed on a malformed event that follows a well-formed one, over a
\* table that already has rows
C10_Witness ==
    \E p \in Procs :
        /\ pc[p] = "failed"
        /\ store # <<>>
        /\ response[p][1].json # None
        /\ Len(response[p][1].json[1].features) = 2
        /\ ~Malformed(response[p][1].json[1].features[1])
        /\ Malformed(response[p][1].json[1].features[2])

\* p starts a run: create_earthquake_db(days) is entered
Starting(p) == pc[p] = "main" /\ pc'[p] # "main"

(* C11: a run with negative days or a query with k <= 0 is rejected before *)
(* anything happens: the remote service is not asked, the table keeps its  *)
(* rows, no SELECT runs and no list of rows is returned.                   *)
C11_InvalidRejected ==
    [][\A p \in Procs :
         /\ (Starting(p) /\ days'[p] < 0) =>
               /\ response'[p] = None
               /\ store' = store
         /\ (Querying(p) /\ ~ValidQuery(query'[p][1].k, days[p])) =>
               results'[p] = None]_vars

(* C12: the table only grows: every step keeps every stored row, at its    *)
(* rowid and with its six values, so a row present in one state is present *)
(* unchanged in every later state; query_db changes nothing at all.        *)
C12_StoreGrowsOnly ==
    [][/\ IsPrefix(store, store')
       /\ \A p \in Procs : Querying(p) => store' = store]_vars

\* a call has appended rows to a table that had rows of an earlier call,
\* and skipped a record of its batch
C12_Witness ==
    \E p \in Procs :
        /\ pc[p] = "committed"
        /\ rowcount[p] > 0
        /\ Len(store) > rowcount[p] + 1
        /\ Len(earthquakes[p][1]) > rowcount[p]

\* the distance of row i of the dataset from the point of the call
DistanceOf(i) ==
    calculate_distance(closest[1].eq_lat, closest[1].eq_lon,
                       settlements[i].latitude, settlements[i].longitude)

\* the place of row i among the rows by distance, rows equally far in
\* dataset order
PlaceOf(i) ==
    1 + Cardinality({j \in 1..Len(settlements) :
                        \/ DistanceOf(j) < DistanceOf(i)
                        \/ DistanceOf(j) = DistanceOf(i) /\ j < i})

(* C13: for every point and every n >= 0, get_closest_municipalities       *)
(* returns min(n, dataset size) entries, in non-decreasing distance, and   *)
(* they are the first entries of the dataset ordered by distance with      *)
(* settlements at equal distance in their dataset order.                   *)
C13_ClosestStableSorted ==
    (closest # None /\ closest[1].n >= 0) =>
        LET list == closest[1].returned
        IN  /\ Len(list) = Min(closest[1].n, Len(settlements))
            /\ \A i \in 1..(Len(list) - 1) : list[i][2] <= list[i + 1][2]
            /\ \A i \in 1..Len(settlements) :
                  PlaceOf(i) <= Len(list) =>
                     list[PlaceOf(i)] = <<settlements[i].name, DistanceOf(i)>>

\* a call that cut the list between two different settlements at the same
\* distance, a nearer settlement standing after them in the dataset
C13_Witness ==
    /\ closest # None
    /\ closest[1].n = 2
    /\ Len(settlements) = 3
    /\ DistanceOf(1) = DistanceOf(2)
    /\ settlements[1].name # settlements[2].name
    /\ DistanceOf(3) < DistanceOf(1)

(* C14: a fetch that finds no bounding-box file writes one, and the box it *)
(* reads back for its request is minlatitude 35.0, maxlatitude 47.5,       *)
(* minlongitude 5.0, maxlongitude 20.0; Padova (45.4064, 11.8768), Parma   *)
(* (44.8015, 10.3279) and Palermo (38.1157, 13.3615) pass the four bound   *)
(* checks against the box read from the file.                              *)
C14_DefaultBoxRoundTrip ==
    [][\A p \in Procs :
         (Starting(p) /\ bbox = None) =>
            /\ bbox' # None
            /\ params'[p] = Some([minlatitude |-> 350, maxlatitude |-> 475,
                                  minlongitude |-> 50, maxlongitude |-> 200])
            /\ \A name \in {"Padova", "Parma", "Palermo"} :
                  InsideBoundingBox(test_cities[name], ReadBoundingBox(bbox'[1]))
            /\ test_cities["Padova"] = [lat |-> 454064, lon |-> 118768]
            /\ test_cities["Parma"] = [lat |-> 448015, lon |-> 103279]
            /\ test_cities["Palermo"] = [lat |-> 381157, lon |-> 133615]]_vars

\* a run has written the file and asked the service with the box read back
C14_Witness ==
    \E p \in Procs :
        /\ bbox = Some(write_bounding_box)
        /\ params[p] # None
        /\ params[p][1].maxlatitude = 475
        /\ pc[p] = "fetched"

\* the magnitude the event carries: null when the property is absent or null
MagnitudeOf(event) ==
    IF "mag" \in DOMAIN event.properties THEN event.properties.mag ELSE None

(* C15: an event without magnitude, the property absent or null, is not an *)
(* error: when the fetch succeeded and every event has a readable          *)
(* timestamp and a coordinate pair, gather_earthquakes returns one record  *)
(* for each event, in order, with the event's magnitude, null (not zero)   *)
(* when the event has none.                                                *)
C15_MissingMagnitudeIsNull ==
    \A p \in Procs :
        (response[p] # None /\ ~FetchFails(response[p][1])) =>
            LET events == response[p][1].json[1].features
            IN  /\ earthquakes[p] # None
                /\ Len(earthquakes[p][1]) = Len(events)
                /\ \A i \in 1..Len(events) :
                      earthquakes[p][1][i].mag = MagnitudeOf(events[i])

\* the stored rows eligible for the query, other than rec, that are at least
\* as strong as rec
AtLeastAsStrong(rec, tbl, now, d, m) ==
    {i \in Eligible(tbl, now, d, m) : tbl[i] # rec /\ tbl[i].mag[1] >= rec.mag[1]}

\* the query of run p found the record rec stored and eligible, and returned
\* it if fewer than k other eligible rows are at least as strong
ServedByOwnQuery(p, rec) ==
    LET q == query[p][1]
    IN  /\ \E i \in Eligible(store, today, days[p], q.min_magnitude) : store[i] = rec
        /\ Cardinality(AtLeastAsStrong(rec, store, today, days[p], q.min_magnitude)) < q.k
              => rec \in Range(results[p][1])

(* C16, as claimed: a run fetches, stores and commits before it queries,   *)
(* so every record the run fetched whose magnitude is at least             *)
(* min_magnitude is a stored, eligible row for the run's own query, and is *)
(* returned whenever fewer than k eligible rows are at least as strong.    *)
C16_FetchedIsEligible ==
    \A p \in Procs :
        (Done(p) /\ ValidQuery(query[p][1].k, days[p])) =>
            \A j \in 1..Len(batch[p]) :
                AtLeast(batch[p][j], query[p][1].min_magnitude)
                   => ServedByOwnQuery(p, batch[p][j])

(* C16, amended: a run fetches, stores and commits before it queries, so   *)
(* every record the run fetched is stored when the query runs, and every   *)
(* one whose magnitude is at least min_magnitude and whose day is on or    *)
(* after the query's today - days is an eligible row for the run's own     *)
(* query, returned whenever fewer than k eligible rows are at least as     *)
(* strong.                                                                 *)
C16_FetchedInWindowIsEligible ==
    \A p \in Procs :
        (Done(p) /\ ValidQuery(query[p][1].k, days[p])) =>
            \A j \in 1..Len(batch[p]) :
                /\ \E i \in 1..Len(store) : store[i] = batch[p][j]
                /\ ( /\ AtLeast(batch[p][j], query[p][1].min_magnitude)
                     /\ InWindow(batch[p][j], today, days[p]) )
                      => ServedByOwnQuery(p, batch[p][j])

\* a run fetched two records, and its query returned one of them after a
\* stronger row of an earlier run, the other being too old
C16_Witness ==
    \E p \in Procs :
        /\ Done(p)
        /\ ValidQuery(query[p][1].k, days[p])
        /\ Len(batch[p]) = 2
        /\ Len(results[p][1]) = 2
        /\ results[p][1][1] \notin Range(batch[p])
        /\ results[p][1][2] \in Range(batch[p])
        /\ \E j \in 1..2 :
              /\ AtLeast(batch[p][j], query[p][1].min_magnitude)
              /\ ~InWindow(batch[p][j], today, days[p])

(* C17: the bounding-box file is written only by a fetch that finds none;  *)
(* once it exists no step changes its rows, whatever values it holds; and  *)
(* every fetch puts into its request the four values the file holds after  *)
(* step 1.                                                                 *)
C17_BoundingBoxWrittenOnce ==
    [][/\ bbox # None => bbox' = bbox
       /\ bbox' # bbox => \E p \in Procs : Starting(p)
       /\ \A p \in Procs :
             Starting(p) =>
                /\ bbox' # None
                /\ params'[p] # None
                /\ Len(bbox'[1]) = 4
                /\ \A i \in 1..Len(bbox'[1]) :
                      Repr(params'[p][1][bbox'[1][i][1]]) = bbox'[1][i][2]]_vars

\* a fetch found an edited file, left it as it was and asked with its values
C17_Witness ==
    \E p \in Procs :
        /\ pc[p] = "fetched"
        /\ bbox = Some(EditedBoundingBox)
        /\ params[p] = Some([minlatitude |-> 360, maxlatitude |-> 390,
                             minlongitude |-> 120, maxlongitude |-> 160])

\* the tables that hold the rows of tbl, inserted in any order
SameRows(tbl) ==
    {t \in [1..Len(tbl) -> Range(tbl)] : \A row \in Range(tbl) : Count(t, row) = Count(tbl, row)}

SameAsPipeline(p, gathered) ==
    IF pc'[p] = "failed"
    THEN gathered = None /\ store' = store /\ results'[p] = None
    ELSE /\ gathered = Some(batch'[p])
         /\ store' = ExecuteMany(store, batch'[p])
         /\ results'[p] # None
         /\ results'[p][1] \in QueryResults(store', today', query'[p][1].k, days'[p],
                                             query'[p][1].min_magnitude)

(* C19: with the bounding-box file in place the two entry points are       *)
(* equivalent: from the same table and the same response, a run of         *)
(* src/main.py (earthquakes.py) leaves the rows and returns a result that  *)
(* db.create_earthquake_db and db.query_db produce, and a run of           *)
(* interface.main leaves the rows and returns a result that the functions  *)
(* of earthquakes.py produce; neither touches the file.  Without the file  *)
(* the run of src/main.py fails before it asks the service and changes     *)
(* nothing, while the run of interface.main creates the file.              *)
C19_PipelinesEquivalent ==
    [][/\ (Starting(2) /\ bbox # None) =>
             /\ SameAsPipeline(2, GatherEarthquakes(response'[2][1]))
             /\ bbox' = EnsureBoundingBox(bbox)
       /\ (Starting(1) /\ bbox # None) =>
             /\ SameAsPipeline(1, earthquakes_gather(bbox, response'[1][1]))
             /\ bbox' = bbox
       /\ (Starting(2) /\ bbox = None) =>
             /\ pc'[2] = "failed"
             /\ response'[2] = None
             /\ UNCHANGED <<bbox, store, table, results>>
       /\ (Starting(1) /\ bbox = None) => bbox' = Some(write_bounding_box)]_vars

\* a run of src/main.py with the file in place stored a record without
\* magnitude and returned two rows
C19_Witness ==
    /\ pc[2] = "done"
    /\ bbox # None
    /\ \E j \in 1..Len(batch[2]) : batch[2][j].mag = None
    /\ Len(results[2][1]) = 2

====
